---- MODULE Spec2Model ----
(***************************************************************************)
(* Model of src/src/app/page.tsx (ChessGPT): the React component           *)
(* PlayEngine, its two Move Proposer functions and its auto-play loop.     *)
(*                                                                         *)
(* React semantics kept by the model:                                      *)
(*  - every function of the component closes over the state values of the  *)
(*    render that created it; a timer callback or the continuation of an   *)
(*    await keeps the values of that render (game, model, model2,          *)
(*    retryCount), whatever was set since;                                 *)
(*  - a handler's state updates and the effects of the render they cause   *)
(*    (lines 108-122) are committed with the handler, in one step.         *)
(* Chess rules engine (chess.js 0.x, the ChessInstance API the file        *)
(* imports): a game object is a set of methods over one internal state, so *)
(* the shallow copy { ...game } shares that state with game.  The rules    *)
(* themselves are abstracted to a small game over two move tokens.         *)
(***************************************************************************)
EXTENDS Integers, Sequences, FiniteSets, Bags, TLC

\* ---------------------------------------------------------------- bounds
MaxPly == 3        \* the abstract game has no legal move after MaxPly plies
MaxGames == 2      \* Chess objects ever constructed (1 + resets)
MaxLoops == 1      \* autoPlay invocations scheduled or suspended at once
MaxCalls == 1      \* force-move invocations suspended at once
MaxReplyLen == 3   \* characters in a model reply given to the parser alone
MaxPromptLen == 3  \* characters in a user prompt
MaxRun == 4        \* the count of consecutive "no move" outcomes saturates here

\* ------------------------------------------------------------- text
Chars == {" ", "\n", ".", "a", "b"}

RECURSIVE SeqsUpTo(_, _)
SeqsUpTo(S, n) ==
  IF n = 0 THEN {<<>>}
  ELSE LET shorter == SeqsUpTo(S, n - 1)
       IN shorter \cup {Append(s, c) : s \in {t \in shorter : Len(t) = n - 1}, c \in S}

Replies == SeqsUpTo(Chars, MaxReplyLen)
\* the replies a request resolves with: empty, blank, a move number alone,
\* each move token
StepReplies == {<<>>, <<" ">>, <<".">>, <<"a">>, <<"b">>}

IsWhite(c) == c \in {" ", "\n"}

\* String.prototype.trim
RECURSIVE trimStart(_)
trimStart(s) == IF s # <<>> /\ IsWhite(Head(s)) THEN trimStart(Tail(s)) ELSE s

RECURSIVE trimEnd(_)
trimEnd(s) ==
  IF s # <<>> /\ IsWhite(s[Len(s)]) THEN trimEnd(SubSeq(s, 1, Len(s) - 1)) ELSE s

trim(s) == trimEnd(trimStart(s))

\* String.prototype.split(' '): one token more than there are spaces; the
\* empty string gives the one empty token.
RECURSIVE splitAcc(_, _, _)
splitAcc(s, cur, acc) ==
  IF s = <<>> THEN Append(acc, cur)
  ELSE IF Head(s) = " " THEN splitAcc(Tail(s), <<>>, Append(acc, cur))
  ELSE splitAcc(Tail(s), Append(cur, Head(s)), acc)

split(s) == splitAcc(s, <<>>, <<>>)

includesDot(tok) == \E i \in 1..Len(tok) : tok[i] = "."

\* Array.prototype.filter(item => !item.includes('.'))
RECURSIVE filterNoDot(_)
filterNoDot(toks) ==
  IF toks = <<>> THEN <<>>
  ELSE IF includesDot(Head(toks)) THEN filterNoDot(Tail(toks))
  ELSE <<Head(toks)>> \o filterNoDot(Tail(toks))

\* Values that are no move token; each is a one-element sequence whose
\* element is no character, so that it compares unequal to every token.
Undefined == <<"undefined">>
Null == <<"null">>
Throw == <<"throw">>

\* lines 50 and 74: response_content.trim().split(' ').filter(...)[0]
choiceOf(response_content) ==
  LET toks == filterNoDot(split(trim(response_content)))
  IN IF toks = <<>> THEN Undefined ELSE toks[1]

\* ------------------------------------------------------ rules engine
San == { <<"a">>, <<"b">> }

Last(h) == h[Len(h)]

\* game.moves(): no move after MaxPly plies; a side may not repeat the move
\* just played by the other side.
moves(h) ==
  IF Len(h) >= MaxPly THEN {}
  ELSE IF h = <<>> THEN San
  ELSE San \ {Last(h)}

\* game.in_draw(): the position after "b" from the second ply on is drawn; it
\* still has legal moves below MaxPly.
in_draw(h) == Len(h) >= 2 /\ Last(h) = <<"b">>

\* game.game_over(): checkmate, stalemate or draw.
game_over(h) == in_draw(h) \/ moves(h) = {}

\* game.turn()
turn(h) == IF Len(h) % 2 = 0 THEN "w" ELSE "b"

\* game.move(m): the history after the call and the call's result.
move(h, m) ==
  IF m \in moves(h) THEN [hist |-> Append(h, m), result |-> m]
  ELSE [hist |-> h, result |-> Null]

\* ------------------------------------------------------ Move Proposer
Models == {"gpt-3.5-turbo-instruct", "gpt-4"}
DEFAULT_MODEL == "gpt-3.5-turbo-instruct"

useChatCompletions(m) == m # "gpt-3.5-turbo-instruct"

\* a guard that forgets the drawn positions
noRequest_OnlyNoMoves(h) == moves(h) = {}

\* lines 27 and 60: the guard before the request
noRequest(h) == game_over(h) \/ in_draw(h) \/ moves(h) = {}

\* lines 48-54 (chat = TRUE) and 73-78 (chat = FALSE): the value the
\* proposer returns for a reply, or Throw for the error of line 49.
queryResult(chat, response_content, possibleMoves) ==
  IF chat /\ response_content = <<>> THEN Throw
  ELSE LET choice == choiceOf(response_content)
       IN IF choice \in possibleMoves THEN choice ELSE Null


\* ------------------------------------------------------------- state
VARIABLES
  games,         \* internal state of each Chess object: its move history
  nGames,        \* Chess objects constructed so far
  game,          \* useState game: the object the latest render holds
  model,         \* useState model (white, and force-move)
  model2,        \* useState model2 (black)
  lastMessage,   \* useState lastMessage
  PGNInput,      \* useState PGNInput
  retryCount,    \* useState retryCount
  isAutoPlay,    \* useState isAutoPlay
  isAutoPlayRef, \* isAutoPlayRef.current
  loops,         \* bag of autoPlay invocations: waiting in a timer or at the await
  calls,         \* bag of makeChatCompletionsMove / makeCompletionsMove invocations at the await
  noMoveRun,     \* history: consecutive "no move" outcomes of auto-play cycles
  dropOutcome,   \* history: result of the latest onDrop since auto-play was last started
  query          \* one call of a pure part of the Move Proposer: its arguments and its result

vars == <<games, nGames, game, model, model2, lastMessage, PGNInput, retryCount,
          isAutoPlay, isAutoPlayRef, loops, calls, noMoveRun, dropOutcome, query>>

\* the state of the page
pvars == <<games, nGames, game, model, model2, lastMessage, PGNInput, retryCount,
           isAutoPlay, isAutoPlayRef, loops, calls>>

\* the variables that are no state of the page; its operations leave them
\* out, the specifications below say how each step sets them
hvars == <<noMoveRun, dropOutcome, query>>

\* status line texts
NoMessage == [kind |-> "none"]
NoMoveMessage == [kind |-> "noMove"]
StoppedMessage == [kind |-> "stopped"]
SuggestsMessage(m) == [kind |-> "suggests", move |-> m]

\* PGN texts, as the sequence of their move-text tokens
InvalidPGNText == << <<"!">> >>
PgnTexts == { << <<"a">>, <<"b">> >>, << <<"a">>, <<"a">> >> }

NoQuery == [chat |-> FALSE, response_content |-> <<>>, possibleMoves |-> {},
            result |-> Null, done |-> TRUE]

\* bags of pending invocations
add(B, x) == B (+) SetToBag({x})
remove(B, x) == B (-) SetToBag({x})
only(B, S) == [x \in {y \in DOMAIN B : y \in S} |-> B[x]]
size(B) == IF DOMAIN B = {} THEN 0 ELSE BagCardinality(B)

InitPage ==
  /\ games = [g \in 1..MaxGames |-> <<>>]
  /\ nGames = 1
  /\ game = 1
  /\ model = DEFAULT_MODEL
  /\ model2 = DEFAULT_MODEL
  /\ lastMessage = NoMessage
  /\ PGNInput = <<>>
  /\ retryCount = 0
  /\ isAutoPlay = FALSE
  /\ isAutoPlayRef = FALSE
  /\ loops = EmptyBag
  /\ calls = EmptyBag
  /\ noMoveRun = 0
  /\ dropOutcome = "none"

Init == InitPage /\ query = NoQuery

\* ------------------------------------------------------- operations
\* movePiece (lines 167-172) of a render that holds Chess object g: the move
\* is tried on the internal state g shares with its copy; setGame(gameCopy)
\* makes g the displayed game.
movePiece(gs, g, m) == [gs EXCEPT ![g] = move(@, m).hist]

\* cleanup of the effect of lines 108-118: clearTimeout of the timer the
\* effect set, if it has not fired yet
clearEffectTimeout(ls) == only(ls, {l \in DOMAIN ls : l.pc # "timer0"})

\* a callback waiting in setTimeout(autoPlay, 200) from inside autoPlay
scheduled(l) == [l EXCEPT !.pc = "timer", !.possibleMoves = {}, !.chat = FALSE]

\* an autoPlay invocation at the await of its request
requesting(l, h, m) ==
  [l EXCEPT !.pc = "await", !.possibleMoves = moves(h), !.chat = useChatCompletions(m)]

Min(a, b) == IF a < b THEN a ELSE b

\* onChange of the two model selectors (lines 205, 301)
SetModel(m) ==
  /\ model' = m
  /\ UNCHANGED <<games, nGames, game, model2, lastMessage, PGNInput, retryCount,
                 isAutoPlay, isAutoPlayRef, loops, calls>>

SetModel2(m) ==
  /\ model2' = m
  /\ UNCHANGED <<games, nGames, game, model, lastMessage, PGNInput, retryCount,
                 isAutoPlay, isAutoPlayRef, loops, calls>>

\* resetBoard (lines 150-153)
resetBoard ==
  /\ nGames < MaxGames
  /\ nGames' = nGames + 1
  /\ games' = [games EXCEPT ![nGames + 1] = <<>>]
  /\ game' = nGames + 1
  /\ lastMessage' = NoMessage
  /\ UNCHANGED <<model, model2, PGNInput, retryCount, isAutoPlay, isAutoPlayRef,
                 loops, calls>>

\* onChange of the PGN text area (line 231)
SetPGNInput(t) ==
  /\ PGNInput' = t
  /\ UNCHANGED <<games, nGames, game, model, model2, lastMessage, retryCount,
                 isAutoPlay, isAutoPlayRef, loops, calls>>

\* load_pgn of chess.js 0.x: the board is reset, then the moves of the text
\* are made one by one; at the first move that is not possible the call
\* returns false and keeps the position reached.  A text without a move
\* fails on its (empty) last token.
RECURSIVE loadMoves(_, _)
loadMoves(h, toks) ==
  IF toks = <<>> THEN [hist |-> h, ok |-> TRUE]
  ELSE IF Head(toks) \in moves(h) THEN loadMoves(Append(h, Head(toks)), Tail(toks))
  ELSE [hist |-> h, ok |-> FALSE]

load_pgn(toks) ==
  IF toks = <<>> THEN [hist |-> <<>>, ok |-> FALSE] ELSE loadMoves(<<>>, toks)

\* setGameStateFromPGN (lines 155-165), called with PGNInput (line 236)
setGameStateFromPGN ==
  LET isLoaded == load_pgn(PGNInput)
  IN /\ games' = [games EXCEPT ![game] = isLoaded.hist]
     /\ PGNInput' = IF isLoaded.ok THEN <<>> ELSE InvalidPGNText
     /\ UNCHANGED <<nGames, game, model, model2, lastMessage, retryCount,
                    isAutoPlay, isAutoPlayRef, loops, calls>>

\* makeChatCompletionsMove / makeCompletionsMove (lines 174-186) up to the
\* await of the request, called by a render that holds game g and model m,
\* on the store gs and the suspended calls cs: the status line and the
\* suspended calls after.
makeMove(gs, g, m, cs, msg) ==
  IF noRequest(gs[g])
  THEN [lastMessage |-> NoMoveMessage, calls |-> cs]
  ELSE [lastMessage |-> msg,
        calls |-> add(cs, [game |-> g, possibleMoves |-> moves(gs[g]),
                           chat |-> useChatCompletions(m)])]

canMakeMove(gs, g, cs) == noRequest(gs[g]) \/ size(cs) < MaxCalls

\* the button Force Model to Make Next Move (lines 219-224)
ForceMove ==
  /\ canMakeMove(games, game, calls)
  /\ LET r == makeMove(games, game, model, calls, lastMessage)
     IN /\ lastMessage' = r.lastMessage
        /\ calls' = r.calls
  /\ UNCHANGED <<games, nGames, game, model, model2, PGNInput, retryCount,
                 isAutoPlay, isAutoPlayRef, loops>>

\* onDrop (lines 188-194); m stands for the dragged from/to pair.
\* Its return value:
onDropReturns(m) == move(games[game], m).result # Null

\* an onDrop that stops auto-play before it looks at the result of the move
onDrop_StopsBeforeCheck(m) ==
  LET gs == movePiece(games, game, m)
  IN /\ games' = gs
     /\ isAutoPlay' = FALSE
     /\ isAutoPlayRef' = FALSE
     /\ loops' = IF isAutoPlay THEN clearEffectTimeout(loops) ELSE loops
     /\ IF ~onDropReturns(m)
        THEN UNCHANGED <<lastMessage, calls>>
        ELSE /\ canMakeMove(gs, game, calls)
             /\ LET r == makeMove(gs, game, model, calls, lastMessage)
                IN /\ lastMessage' = r.lastMessage
                   /\ calls' = r.calls
     /\ UNCHANGED <<nGames, game, model, model2, PGNInput, retryCount>>

onDrop(m) ==
  LET gs == movePiece(games, game, m)
  IN IF ~onDropReturns(m)
     THEN UNCHANGED <<games, nGames, game, model, model2, lastMessage, PGNInput,
                      retryCount, isAutoPlay, isAutoPlayRef, loops, calls>>
     ELSE /\ canMakeMove(gs, game, calls)
          /\ games' = gs
          /\ isAutoPlay' = FALSE
          /\ isAutoPlayRef' = FALSE
          /\ loops' = IF isAutoPlay THEN clearEffectTimeout(loops) ELSE loops
          /\ LET r == makeMove(gs, game, model, calls, lastMessage)
             IN /\ lastMessage' = r.lastMessage
                /\ calls' = r.calls
          /\ UNCHANGED <<nGames, game, model, model2, PGNInput, retryCount>>

\* the button Start/Stop Auto Play (line 310) and the effects of lines 108-122
ToggleAutoPlay ==
  IF isAutoPlay
  THEN /\ isAutoPlay' = FALSE
       /\ isAutoPlayRef' = FALSE
       /\ loops' = clearEffectTimeout(loops)
       /\ UNCHANGED <<games, nGames, game, model, model2, lastMessage, PGNInput,
                      retryCount, calls>>
  ELSE /\ size(loops) < MaxLoops
       /\ isAutoPlay' = TRUE
       /\ isAutoPlayRef' = TRUE
       /\ loops' = add(loops, [pc |-> "timer0", game |-> game, model |-> model,
                               model2 |-> model2, retryCount |-> retryCount,
                               possibleMoves |-> {}, chat |-> FALSE])
       /\ UNCHANGED <<games, nGames, game, model, model2, lastMessage, PGNInput,
                      retryCount, calls>>

\* an autoPlay that still retries when the counter it holds is 3
autoNoMove_RetriesAtThree(l) ==
  /\ IF l.retryCount < 4
     THEN /\ retryCount' = l.retryCount + 1
          /\ loops' = add(remove(loops, l), scheduled(l))
          /\ UNCHANGED <<isAutoPlay, isAutoPlayRef, lastMessage>>
     ELSE /\ isAutoPlay' = FALSE
          /\ isAutoPlayRef' = FALSE
          /\ retryCount' = 0
          /\ lastMessage' = StoppedMessage
          /\ loops' = IF isAutoPlay THEN clearEffectTimeout(remove(loops, l))
                      ELSE remove(loops, l)
  /\ UNCHANGED <<games, nGames, game, model, model2, PGNInput, calls>>

\* autoPlay, lines 132-142: the proposer returned null to the invocation l
autoNoMove(l) ==
  /\ IF l.retryCount < 3
     THEN /\ retryCount' = l.retryCount + 1
          /\ loops' = add(remove(loops, l), scheduled(l))
          /\ UNCHANGED <<isAutoPlay, isAutoPlayRef, lastMessage>>
     ELSE /\ isAutoPlay' = FALSE
          /\ isAutoPlayRef' = FALSE
          /\ retryCount' = 0
          /\ lastMessage' = StoppedMessage
          /\ loops' = IF isAutoPlay THEN clearEffectTimeout(remove(loops, l))
                      ELSE remove(loops, l)
  /\ UNCHANGED <<games, nGames, game, model, model2, PGNInput, calls>>

\* autoPlay, lines 144-147: the proposer returned the move m
autoMove(l, m) ==
  /\ retryCount' = 0
  /\ lastMessage' = SuggestsMessage(m)
  /\ games' = movePiece(games, l.game, m)
  /\ game' = l.game
  /\ loops' = add(remove(loops, l), scheduled(l))
  /\ UNCHANGED <<nGames, model, model2, PGNInput, isAutoPlay, isAutoPlayRef, calls>>

\* an autoPlay without the check of line 125
AutoPlayWake_NoFlagCheck(l) ==
  /\ l \in DOMAIN loops
  /\ l.pc \in {"timer0", "timer"}
  /\ LET h == games[l.game]
         currentModel == IF turn(h) = "w" THEN l.model ELSE l.model2
     IN IF noRequest(h)
        THEN autoNoMove(l)
        ELSE /\ loops' = add(remove(loops, l), requesting(l, h, currentModel))
             /\ UNCHANGED <<games, nGames, game, model, model2, lastMessage, PGNInput,
                            retryCount, isAutoPlay, isAutoPlayRef, calls>>

\* a timer set by line 111 or by lines 135, 147 fires: autoPlay, lines 124-130
AutoPlayWake(l) ==
  /\ l \in DOMAIN loops
  /\ l.pc \in {"timer0", "timer"}
  /\ IF ~isAutoPlayRef
     THEN /\ loops' = remove(loops, l)
          /\ UNCHANGED <<games, nGames, game, model, model2, lastMessage, PGNInput,
                         retryCount, isAutoPlay, isAutoPlayRef, calls>>
     ELSE LET h == games[l.game]
              currentModel == IF turn(h) = "w" THEN l.model ELSE l.model2
          IN IF noRequest(h)
             THEN autoNoMove(l)
             ELSE /\ loops' = add(remove(loops, l), requesting(l, h, currentModel))
                  /\ UNCHANGED <<games, nGames, game, model, model2, lastMessage, PGNInput,
                                 retryCount, isAutoPlay, isAutoPlayRef, calls>>

\* the request of an auto-play cycle resolves with the text reply
AutoPlayResolve(l, reply) ==
  /\ l \in DOMAIN loops
  /\ l.pc = "await"
  /\ LET mv == queryResult(l.chat, reply, l.possibleMoves)
     IN IF mv = Throw
        THEN /\ loops' = remove(loops, l)
             /\ UNCHANGED <<games, nGames, game, model, model2, lastMessage, PGNInput,
                            retryCount, isAutoPlay, isAutoPlayRef, calls>>
        ELSE IF mv = Null THEN autoNoMove(l) ELSE autoMove(l, mv)

\* a force-move that sends its request again when it got no move
ForceResolve_Retries(c, reply) ==
  /\ c \in DOMAIN calls
  /\ LET mv == queryResult(c.chat, reply, c.possibleMoves)
     IN IF mv = Throw
        THEN /\ calls' = remove(calls, c)
             /\ UNCHANGED <<games, game, lastMessage>>
        ELSE IF mv = Null
        THEN /\ lastMessage' = NoMoveMessage
             /\ calls' = calls
             /\ UNCHANGED <<games, game>>
        ELSE /\ lastMessage' = SuggestsMessage(mv)
             /\ calls' = remove(calls, c)
             /\ games' = movePiece(games, c.game, mv)
             /\ game' = c.game
  /\ UNCHANGED <<nGames, model, model2, PGNInput, retryCount, isAutoPlay,
                 isAutoPlayRef, loops>>

\* the request of makeChatCompletionsMove / makeCompletionsMove resolves
\* (lines 175-178, 182-185)
ForceResolve(c, reply) ==
  /\ c \in DOMAIN calls
  /\ LET mv == queryResult(c.chat, reply, c.possibleMoves)
     IN /\ calls' = remove(calls, c)
        /\ IF mv = Throw
           THEN UNCHANGED <<games, game, lastMessage>>
           ELSE IF mv = Null
           THEN /\ lastMessage' = NoMoveMessage
                /\ UNCHANGED <<games, game>>
           ELSE /\ lastMessage' = SuggestsMessage(mv)
                /\ games' = movePiece(games, c.game, mv)
                /\ game' = c.game
  /\ UNCHANGED <<nGames, model, model2, PGNInput, retryCount, isAutoPlay,
                 isAutoPlayRef, loops>>

\* the request is rejected by the service (lines 29, 64): the async function
\* that awaits it ends with that rejection
AutoPlayRequestFails(l) ==
  /\ l \in DOMAIN loops
  /\ l.pc = "await"
  /\ loops' = remove(loops, l)
  /\ UNCHANGED <<games, nGames, game, model, model2, lastMessage, PGNInput,
                 retryCount, isAutoPlay, isAutoPlayRef, calls>>

ForceRequestFails(c) ==
  /\ c \in DOMAIN calls
  /\ calls' = remove(calls, c)
  /\ UNCHANGED <<games, nGames, game, model, model2, lastMessage, PGNInput,
                 retryCount, isAutoPlay, isAutoPlayRef, loops>>

\* ---------------------------------------------------- specifications
\* every operation of the page
Next ==
  \/ \E m \in Models : SetModel(m) /\ UNCHANGED hvars
  \/ \E m \in Models : SetModel2(m) /\ UNCHANGED hvars
  \/ resetBoard /\ UNCHANGED hvars
  \/ \E t \in PgnTexts : SetPGNInput(t) /\ UNCHANGED hvars
  \/ setGameStateFromPGN /\ UNCHANGED hvars
  \/ ForceMove /\ UNCHANGED hvars
  \/ \E m \in San : onDrop(m) /\ UNCHANGED hvars
  \/ ToggleAutoPlay /\ UNCHANGED hvars
  \/ \E l \in DOMAIN loops : AutoPlayWake(l) /\ UNCHANGED hvars
  \/ \E l \in DOMAIN loops, reply \in StepReplies : AutoPlayResolve(l, reply) /\ UNCHANGED hvars
  \/ \E c \in DOMAIN calls, reply \in StepReplies : ForceResolve(c, reply) /\ UNCHANGED hvars
  \/ \E l \in DOMAIN loops : AutoPlayRequestFails(l) /\ UNCHANGED hvars
  \/ \E c \in DOMAIN calls : ForceRequestFails(c) /\ UNCHANGED hvars

Spec == Init /\ [][Next]_vars

\* the play of one game: no reset, no PGN load
NextPlay ==
  \/ \E m \in Models : SetModel(m) /\ UNCHANGED hvars
  \/ \E m \in Models : SetModel2(m) /\ UNCHANGED hvars
  \/ ForceMove /\ UNCHANGED hvars
  \/ \E m \in San : onDrop(m) /\ UNCHANGED hvars
  \/ ToggleAutoPlay /\ UNCHANGED hvars
  \/ \E l \in DOMAIN loops : AutoPlayWake(l) /\ UNCHANGED hvars
  \/ \E l \in DOMAIN loops, reply \in StepReplies : AutoPlayResolve(l, reply) /\ UNCHANGED hvars
  \/ \E c \in DOMAIN calls, reply \in StepReplies : ForceResolve(c, reply) /\ UNCHANGED hvars
  \/ \E l \in DOMAIN loops : AutoPlayRequestFails(l) /\ UNCHANGED hvars
  \/ \E c \in DOMAIN calls : ForceRequestFails(c) /\ UNCHANGED hvars

SpecPlay == Init /\ [][NextPlay]_vars

\* a session of play with the model of white and of force-move chosen
\* before the first move and before any request
beforePlay == games[game] = <<>> /\ loops = EmptyBag /\ calls = EmptyBag

NextSession ==
  \/ \E m \in Models : beforePlay /\ SetModel(m) /\ UNCHANGED hvars
  \/ ForceMove /\ UNCHANGED hvars
  \/ \E m \in San : onDrop(m) /\ UNCHANGED hvars
  \/ ToggleAutoPlay /\ UNCHANGED hvars
  \/ \E l \in DOMAIN loops : AutoPlayWake(l) /\ UNCHANGED hvars
  \/ \E l \in DOMAIN loops, reply \in StepReplies : AutoPlayResolve(l, reply) /\ UNCHANGED hvars
  \/ \E c \in DOMAIN calls, reply \in StepReplies : ForceResolve(c, reply) /\ UNCHANGED hvars
  \/ \E l \in DOMAIN loops : AutoPlayRequestFails(l) /\ UNCHANGED hvars
  \/ \E c \in DOMAIN calls : ForceRequestFails(c) /\ UNCHANGED hvars

SpecSession == Init /\ [][NextSession]_vars

\* the play of one game with the default models, recording the outcome of
\* the drops: the latest onDrop returned false ("rejected") or true ("accepted"); starting
\* auto-play forgets it
recordDrop(m) == dropOutcome' = IF onDropReturns(m) THEN "accepted" ELSE "rejected"

recordStart == dropOutcome' = IF isAutoPlay THEN dropOutcome ELSE "none"

NextDrop ==
  \/ ForceMove /\ UNCHANGED hvars
  \/ \E m \in San : onDrop(m) /\ recordDrop(m) /\ UNCHANGED <<noMoveRun, query>>
  \/ ToggleAutoPlay /\ recordStart /\ UNCHANGED <<noMoveRun, query>>
  \/ \E l \in DOMAIN loops : AutoPlayWake(l) /\ UNCHANGED hvars
  \/ \E l \in DOMAIN loops, reply \in StepReplies : AutoPlayResolve(l, reply) /\ UNCHANGED hvars
  \/ \E c \in DOMAIN calls, reply \in StepReplies : ForceResolve(c, reply) /\ UNCHANGED hvars
  \/ \E l \in DOMAIN loops : AutoPlayRequestFails(l) /\ UNCHANGED hvars
  \/ \E c \in DOMAIN calls : ForceRequestFails(c) /\ UNCHANGED hvars

SpecDrop == Init /\ [][NextDrop]_vars

\* auto-play, recording the consecutive "no move" outcomes of its cycles: a
\* cycle whose proposer returns null adds one, a cycle that gets a move and
\* the start of auto-play set the count to 0
wakeOutcome(l) ==
  IF ~isAutoPlayRef THEN "exit"
  ELSE IF noRequest(games[l.game]) THEN "noMove" ELSE "request"

resolveOutcome(l, reply) ==
  LET mv == queryResult(l.chat, reply, l.possibleMoves)
  IN IF mv = Throw THEN "throw" ELSE IF mv = Null THEN "noMove" ELSE "move"

recordRun(outcome) ==
  noMoveRun' = IF outcome = "noMove" THEN Min(noMoveRun + 1, MaxRun)
               ELSE IF outcome \in {"move", "start"} THEN 0
               ELSE noMoveRun

NextRetry ==
  \/ \E m \in Models : SetModel(m) /\ UNCHANGED hvars
  \/ \E m \in San : onDrop(m) /\ UNCHANGED hvars
  \/ ToggleAutoPlay /\ recordRun(IF isAutoPlay THEN "stop" ELSE "start")
                    /\ UNCHANGED <<dropOutcome, query>>
  \/ \E l \in DOMAIN loops : AutoPlayWake(l) /\ recordRun(wakeOutcome(l)) /\ UNCHANGED <<dropOutcome, query>>
  \/ \E l \in DOMAIN loops, reply \in StepReplies :
        AutoPlayResolve(l, reply) /\ recordRun(resolveOutcome(l, reply))
                                  /\ UNCHANGED <<dropOutcome, query>>
  \/ \E c \in DOMAIN calls, reply \in StepReplies : ForceResolve(c, reply) /\ UNCHANGED hvars
  \/ \E l \in DOMAIN loops : AutoPlayRequestFails(l) /\ UNCHANGED hvars
  \/ \E c \in DOMAIN calls : ForceRequestFails(c) /\ UNCHANGED hvars

SpecRetry == Init /\ [][NextRetry]_vars

\* the game and its replacement: reset, PGN load, drops and force-moves
NextLoad ==
  \/ resetBoard /\ UNCHANGED hvars
  \/ \E t \in PgnTexts : SetPGNInput(t) /\ UNCHANGED hvars
  \/ setGameStateFromPGN /\ UNCHANGED hvars
  \/ ForceMove /\ UNCHANGED hvars
  \/ \E m \in San : onDrop(m) /\ UNCHANGED hvars
  \/ \E c \in DOMAIN calls, reply \in StepReplies : ForceResolve(c, reply) /\ UNCHANGED hvars
  \/ \E c \in DOMAIN calls : ForceRequestFails(c) /\ UNCHANGED hvars

SpecLoad == Init /\ [][NextLoad]_vars

\* the reply parser alone: any reply against any non-empty legal-move list,
\* for the conversational (chat) and the completion variant
InitParse ==
  /\ InitPage
  /\ query \in {[chat |-> c, response_content |-> r, possibleMoves |-> pm,
                 result |-> Null, done |-> FALSE] :
                  c \in BOOLEAN, r \in Replies, pm \in (SUBSET San) \ {{}}}

Parse ==
  /\ ~query.done
  /\ query' = [query EXCEPT
                 !.result = queryResult(query.chat, query.response_content,
                                        query.possibleMoves),
                 !.done = TRUE]
  /\ UNCHANGED <<pvars, noMoveRun, dropOutcome>>

NextParse == Parse

SpecParse == InitParse /\ [][NextParse]_vars

\* auto-play left to itself: the user acts only while auto-play is off, and
\* while it is on every request is answered by a reply that gives no move.
\* Timers fire and requests are answered: weak fairness of the steps of the
\* loop and of the answers.
noMoveReplies(chat, possibleMoves) ==
  {reply \in StepReplies : queryResult(chat, reply, possibleMoves) = Null}

repliesNow(chat, possibleMoves) ==
  IF isAutoPlay THEN noMoveReplies(chat, possibleMoves) ELSE StepReplies

AloneWake == \E l \in DOMAIN loops : AutoPlayWake(l) /\ UNCHANGED hvars

AloneAutoResolve ==
  \E l \in DOMAIN loops :
    \E reply \in repliesNow(l.chat, l.possibleMoves) :
      AutoPlayResolve(l, reply) /\ UNCHANGED hvars

AloneForceResolve ==
  \E c \in DOMAIN calls :
    \E reply \in repliesNow(c.chat, c.possibleMoves) :
      ForceResolve(c, reply) /\ UNCHANGED hvars

NextAlone ==
  \/ \E m \in Models : ~isAutoPlay /\ SetModel(m) /\ UNCHANGED hvars
  \/ ~isAutoPlay /\ ForceMove /\ UNCHANGED hvars
  \/ \E m \in San : ~isAutoPlay /\ onDrop(m) /\ UNCHANGED hvars
  \/ ~isAutoPlay /\ ToggleAutoPlay /\ UNCHANGED hvars
  \/ AloneWake
  \/ AloneAutoResolve
  \/ AloneForceResolve

SpecAlone ==
  /\ Init
  /\ [][NextAlone]_vars
  /\ WF_vars(AloneWake)
  /\ WF_vars(AloneAutoResolve)
  /\ WF_vars(AloneForceResolve)

\* the text sent to the model (lines 38, 65), alone: any user prompt with any
\* position on which a request is sent, for both variants.
\* game.pgn() without headers: "1. a b 2. a", the empty text for no moves.
numeral(n) == <<"1", "2", "3", "4", "5", "6", "7", "8", "9">>[n]

RECURSIVE pgnFrom(_, _)
pgnFrom(h, i) ==
  IF i > Len(h) THEN <<>>
  ELSE (IF i > 1 THEN <<" ">> ELSE <<>>)
       \o (IF i % 2 = 1 THEN <<numeral((i + 1) \div 2), ".", " ">> ELSE <<>>)
       \o h[i]
       \o pgnFrom(h, i + 1)

pgn(h) == pgnFrom(h, 1)

DefaultPrefix == <<"1", ".", " ">>

\* prompt + game.pgn() || '1. ' : + binds tighter than ||, and the empty
\* string is the only falsy string
content(prompt, h) ==
  LET text == prompt \o pgn(h)
  IN IF text = <<>> THEN DefaultPrefix ELSE text

Prompts == SeqsUpTo({"p", "\n"}, MaxPromptLen)

\* the histories of the games that can be played
Histories ==
  {h \in SeqsUpTo(San, MaxPly) : \A i \in 1..Len(h) : h[i] \in moves(SubSeq(h, 1, i - 1))}

InitContent ==
  /\ InitPage
  /\ query \in {[chat |-> c, prompt |-> p, game |-> h, content |-> Null, done |-> FALSE] :
                  c \in BOOLEAN, p \in Prompts, h \in {g \in Histories : ~noRequest(g)}}

Content ==
  /\ ~query.done
  /\ query' = [query EXCEPT !.content = content(query.prompt, query.game),
                            !.done = TRUE]
  /\ UNCHANGED <<pvars, noMoveRun, dropOutcome>>

NextContent == Content

SpecContent == InitContent /\ [][NextContent]_vars

\* ------------------------------------------------------------ claims
\* the requests of auto-play outstanding, and their number
awaitingLoops == only(loops, {l \in DOMAIN loops : l.pc = "await"})
outstanding == size(awaitingLoops) + size(calls)

\* a cycle of the auto-play invocation l ends with "no move" in this step
noMoveStep(l) ==
  \/ AutoPlayWake(l) /\ wakeOutcome(l) = "noMove"
  \/ \E reply \in StepReplies : AutoPlayResolve(l, reply) /\ resolveOutcome(l, reply) = "noMove"

\* C1: in auto-play, a cycle that ends with "no move" halts the loop (flag
\* false, 'stopped after 3 retries' status, retry counter 0, no further
\* cycle) when and only when it is the 3rd consecutive "no move".
C1_HaltsExactlyAtThirdNoMove ==
  [][\A l \in DOMAIN loops :
       noMoveStep(l) =>
         ((/\ ~isAutoPlay'
           /\ lastMessage' = StoppedMessage
           /\ retryCount' = 0
           /\ size(loops') < size(loops)) <=> noMoveRun' = 3)]_vars

\* C2: a request of auto-play that resolves while the auto-play flag is
\* false is discarded: no move is applied, status line and retry counter
\* stay.
C2_ResultDiscardedWhenFlagFalse ==
  [][\A l \in DOMAIN loops, reply \in StepReplies :
       (AutoPlayResolve(l, reply) /\ ~isAutoPlay) =>
         UNCHANGED <<games, game, lastMessage, retryCount>>]_vars

\* C3: at most one model request is outstanding at a time.
C3_AtMostOneRequest == outstanding <= 1

\* C4: a PGN load is all-or-nothing: a text that parses replaces the game
\* and clears the input; a text that does not parse leaves the displayed
\* game's history as it was and shows the error in the input.
C4_LoadAllOrNothing ==
  [][setGameStateFromPGN =>
       IF load_pgn(PGNInput).ok
       THEN games'[game'] = load_pgn(PGNInput).hist /\ PGNInput' = <<>>
       ELSE games'[game'] = games[game] /\ PGNInput' = InvalidPGNText]_vars

\* the terminal positions, as the claims name them
Terminal(h) == game_over(h) \/ in_draw(h) \/ moves(h) = {}

\* C5: the Move Proposer, invoked on a game in a terminal state, issues no
\* request and returns "no move": no request is ever issued on a terminal
\* position, a force-move on one shows the "no move" status at once, and an
\* auto-play cycle on one takes the "no move" branch at once.
C5_NoRequestOnTerminal ==
  [][/\ \A l \in DOMAIN loops' :
          (l.pc = "await" /\ CopiesIn(l, loops') > CopiesIn(l, loops))
            => ~Terminal(games'[l.game])
     /\ \A c \in DOMAIN calls' :
          CopiesIn(c, calls') > CopiesIn(c, calls) => ~Terminal(games'[c.game])
     /\ (ForceMove /\ Terminal(games[game]))
          => (lastMessage' = NoMoveMessage /\ calls' = calls)
     /\ \A l \in DOMAIN loops :
          (AutoPlayWake(l) /\ isAutoPlay /\ Terminal(games[l.game]))
            => (/\ outstanding' = outstanding
                /\ retryCount' = l.retryCount + 1 \/ ~isAutoPlay')]_vars

\* C5 witness: auto-play has retried on a position with no legal move, with
\* no request outstanding
C5_Witness ==
  /\ isAutoPlay
  /\ retryCount = 1
  /\ outstanding = 0
  /\ \E l \in DOMAIN loops : l.pc = "timer" /\ moves(games[l.game]) = {}

\* the reference result of the claims for a reply and a legal-move list
referenceResult(reply, legal) ==
  LET candidate == choiceOf(reply)
  IN IF candidate \in legal THEN candidate ELSE Null

\* C6: for every reply and every legal-move list, the result of the Move
\* Proposer (either variant) is the reference result: the first token
\* without a period of the trimmed reply if it is a legal move, "no move"
\* otherwise.
C6_ResultIsReference ==
  query.done => query.result = referenceResult(query.response_content, query.possibleMoves)

\* C7: an illegal drop changes nothing: onDrop returns false (the drop is
\* recorded as rejected), and game, history, requests, auto-play flag, retry
\* counter and status line stay.
C7_IllegalDropRejected ==
  [][\A m \in San :
       (onDrop(m) /\ recordDrop(m) /\ m \notin moves(games[game])) =>
         (UNCHANGED pvars /\ dropOutcome' = "rejected")]_vars

\* C7 witness: a drop was rejected while auto-play was running with a
\* request outstanding
C7_Witness == dropOutcome = "rejected" /\ isAutoPlay /\ size(awaitingLoops) > 0

\* C8: a legal drop interrupts auto-play: the flag is false after it, one
\* Move Proposer cycle is triggered for the side now to move, and until
\* auto-play is started again the loop applies no move and issues no request.
C8_DropInterruptsAutoPlay ==
  [][/\ \A m \in San :
          (onDrop(m) /\ m \in moves(games[game])) =>
            /\ ~isAutoPlay'
            /\ IF Terminal(games'[game'])
               THEN lastMessage' = NoMoveMessage /\ calls' = calls
               ELSE size(calls') = size(calls) + 1
     /\ \A l \in DOMAIN loops :
          (/\ dropOutcome = "accepted"
           /\ dropOutcome' = "accepted"
           /\ AutoPlayWake(l) \/ \E reply \in StepReplies : AutoPlayResolve(l, reply))
            => (/\ UNCHANGED <<games, game>>
                /\ \A k \in DOMAIN loops' :
                     k.pc = "await" => CopiesIn(k, loops') <= CopiesIn(k, loops))]_vars

\* a reply that gives no usable move
unusable(reply, legal) == choiceOf(reply) \notin legal

\* C9: an unusable reply (empty, malformed, illegal move) is "no move" for
\* both variants: in auto-play the loop retries or halts at the limit, in
\* force-move the "no move" status is shown.
C9_UnusableReplyIsNoMove ==
  [][/\ \A l \in DOMAIN loops, reply \in StepReplies :
          (AutoPlayResolve(l, reply) /\ unusable(reply, l.possibleMoves)) =>
            \/ /\ CopiesIn(scheduled(l), loops') > CopiesIn(scheduled(l), loops)
               /\ retryCount' = l.retryCount + 1
            \/ ~isAutoPlay' /\ lastMessage' = StoppedMessage /\ retryCount' = 0
     /\ \A c \in DOMAIN calls, reply \in StepReplies :
          (ForceResolve(c, reply) /\ unusable(reply, c.possibleMoves)) =>
            lastMessage' = NoMoveMessage]_vars

\* C10: a wake-up of auto-play that finds the flag cleared exits silently:
\* no request, no move, status line and retry counter unchanged, no further
\* wake-up.
C10_WakeAfterStopExits ==
  [][\A l \in DOMAIN loops :
       (AutoPlayWake(l) /\ ~isAutoPlay) =>
         /\ loops' = remove(loops, l)
         /\ UNCHANGED <<games, nGames, game, model, model2, lastMessage, PGNInput,
                        retryCount, isAutoPlay, isAutoPlayRef, calls>>]_vars

\* C10 witness: auto-play is stopped, a wake-up of its loop is still
\* scheduled
C10_Witness == ~isAutoPlay /\ \E l \in DOMAIN loops : l.pc = "timer"

\* auto-play has stopped on error: flag false, retry counter 0, no cycle
\* scheduled, no request outstanding
StoppedOnError ==
  /\ ~isAutoPlay
  /\ retryCount = 0
  /\ size(loops) = 0
  /\ outstanding = 0

\* C11: when auto-play is on, the user does nothing more and every Move
\* Proposer call returns "no move", auto-play eventually stops on error.
\* Stated for the case of the claim in which requests are sent and answered
\* (the position has legal moves, the model keeps answering without a usable
\* move), where every cycle of the loop is a visible step.
C11_NoMoveEventuallyStops ==
  (isAutoPlay /\ ~Terminal(games[game])) ~> StoppedOnError

\* the model selected now for the side to move in the displayed game
selectedModel == IF turn(games[game]) = "w" THEN model ELSE model2

\* C12: a cycle of auto-play works on the current state, not on the values
\* of the render that started auto-play: the request it issues goes to the
\* model selected now for the side to move, and a cycle that ends with "no
\* move" tests the current retry counter.
C12_CycleReadsCurrentState ==
  [][\A l \in DOMAIN loops :
       /\ (AutoPlayWake(l) /\ isAutoPlayRef) =>
            \A k \in DOMAIN loops' :
              (k.pc = "await" /\ CopiesIn(k, loops') > CopiesIn(k, loops))
                => k.chat = useChatCompletions(selectedModel)
       /\ noMoveStep(l) =>
            IF retryCount < 3
            THEN retryCount' = retryCount + 1
            ELSE ~isAutoPlay' /\ retryCount' = 0]_vars

\* C13: in every reachable state the retry counter is an integer from 0 to 3.
C13_RetryCountBounded == retryCount \in 0..3

\* C13 witness: the counter stands at 3 while auto-play runs, after
\* auto-play was stopped and started again between failed cycles
C13_Witness == retryCount = 3 /\ isAutoPlay /\ size(loops) > 0

\* a Move Proposer result that is a move
isMove(mv) == mv # Null /\ mv # Throw

\* C14: when a Move Proposer call returns a valid move m, the status line
\* reports m and the displayed game's history has been extended by m; in
\* auto-play the retry counter is 0 and the next cycle is scheduled.
C14_ReportedMoveIsApplied ==
  [][/\ \A l \in DOMAIN loops, reply \in StepReplies :
          LET mv == queryResult(l.chat, reply, l.possibleMoves)
          IN (AutoPlayResolve(l, reply) /\ l.pc = "await" /\ isMove(mv)) =>
               /\ lastMessage' = SuggestsMessage(mv)
               /\ games'[game'] = Append(games[game], mv)
               /\ retryCount' = 0
               /\ CopiesIn(scheduled(l), loops') > CopiesIn(scheduled(l), loops)
     /\ \A c \in DOMAIN calls, reply \in StepReplies :
          LET mv == queryResult(c.chat, reply, c.possibleMoves)
          IN (ForceResolve(c, reply) /\ isMove(mv)) =>
               /\ lastMessage' = SuggestsMessage(mv)
               /\ games'[game'] = Append(games[game], mv)]_vars

\* the text of the claims: the user prompt, then the serialized game or, when
\* that is empty, the default prefix
referenceContent(prompt, h) ==
  prompt \o (IF pgn(h) = <<>> THEN DefaultPrefix ELSE pgn(h))

\* C15: for both variants and every user prompt, the text sent is the user
\* prompt followed by the game's notation, with '1. ' in place of an empty
\* notation.
C15_ContentIsPromptThenGame ==
  query.done => query.content = referenceContent(query.prompt, query.game)

staysOrGrows ==
  \/ games'[game'] = games[game]
  \/ \E m \in San : games'[game'] = Append(games[game], m)

\* C17: pending work never undoes a reset: a step of a model response or of
\* an auto-play cycle leaves the displayed game's history or appends one
\* move to it; it never puts the game of before the reset, or a
\* continuation of it, in its place.
C17_ResetNotUndone ==
  [][/\ \A c \in DOMAIN calls, reply \in StepReplies :
          ForceResolve(c, reply) => staysOrGrows
     /\ \A l \in DOMAIN loops :
          (AutoPlayWake(l) \/ \E reply \in StepReplies : AutoPlayResolve(l, reply))
            => staysOrGrows]_vars

\* C18: whenever the auto-play flag is true, a cycle of auto-play is
\* scheduled on a timer or awaits a model response.
C18_FlagMeansLiveLoop == isAutoPlay => size(loops) > 0

\* the displayed game after a step that tries the move m on it: m appended
\* when m is legal in the position of before the step, no change otherwise
appliedIfLegal(m) ==
  IF m \in moves(games[game])
  THEN games'[game'] = Append(games[game], m)
  ELSE games'[game'] = games[game]

\* C19: every move that changes the game is legal in the game's position at
\* the moment it is applied, and a move that is not legal then leaves the
\* game unchanged: for a drop, and for a model's move matched against the
\* legal moves of before the request.
C19_AppliedMoveIsLegal ==
  [][/\ \A m \in San : onDrop(m) => appliedIfLegal(m)
     /\ \A c \in DOMAIN calls, reply \in StepReplies :
          LET mv == queryResult(c.chat, reply, c.possibleMoves)
          IN (ForceResolve(c, reply) /\ isMove(mv)) => appliedIfLegal(mv)
     /\ \A l \in DOMAIN loops, reply \in StepReplies :
          LET mv == queryResult(l.chat, reply, l.possibleMoves)
          IN (AutoPlayResolve(l, reply) /\ l.pc = "await" /\ isMove(mv))
               => appliedIfLegal(mv)]_vars

TypeOK ==
  /\ game \in 1..nGames
  /\ retryCount \in 0..3
  /\ isAutoPlayRef = isAutoPlay
  /\ size(loops) <= MaxLoops
  /\ size(calls) <= MaxCalls

====
